---- MODULE Spec2Model ----
(***************************************************************************)
(* Model of src/renderer/event.js: the KeyboardEvent and PointerEvent      *)
(* value objects, their fromDom* conversions and their clone methods.      *)
(*                                                                         *)
(* JavaScript values are tagged records so that "unset" (undefined) stays  *)
(* distinguishable from 0, false and the empty string.  Event objects live *)
(* on a heap (a sequence; the index is the object's identity); every       *)
(* operation of the module allocates one object with `new`.                *)
(***************************************************************************)
EXTENDS Integers, Sequences, FiniteSets, TLC

VARIABLES
  input,  \* the argument values the caller hands to the module's functions
  heap,   \* the event objects allocated so far, heap[k] is object k
  calls,  \* calls[k] is the call that allocated object k
  last    \* the most recent step: its name and the object it returned or wrote

vars == <<input, heap, calls, last>>

(***************************************************************************)
(* Bounds of the model.                                                    *)
(***************************************************************************)
MaxObjects == 2    \* objects allocated in one run
MaxModifier == 31  \* modifier masks supplied to the constructor: 0..MaxModifier
MaxCoord == 1      \* client coordinates and stage origins: 0..MaxCoord
MaxTouches == 3    \* length of a touch event's touches list

(***************************************************************************)
(* JavaScript values.                                                      *)
(***************************************************************************)
Undefined == [t |-> "undefined", n |-> 0, s |-> ""]
Num(k) == [t |-> "number", n |-> k, s |-> ""]
Str(x) == [t |-> "string", n |-> 0, s |-> x]
Bool(b) == [t |-> "boolean", n |-> IF b THEN 1 ELSE 0, s |-> ""]
Builtin(kind, name) == [t |-> kind, n |-> 0, s |-> name]
NaN == [t |-> "number", n |-> 0, s |-> "NaN"]

\* ToBoolean, as applied by `!!v`, `v ? a : b` and `v || w`.
ToBoolean(v) ==
  CASE v.t = "undefined" -> FALSE
    [] v.t = "boolean" -> v.n = 1
    [] v.t = "number" -> v.n # 0 /\ v.s # "NaN"
    [] v.t = "string" -> v.s # ""
    [] OTHER -> TRUE

\* `a || b`
Or(a, b) == IF ToBoolean(a) THEN a ELSE b

\* `a - b` on numbers; anything that is not a number here (undefined) gives NaN.
Minus(a, b) ==
  IF a.t = "number" /\ b.t = "number" /\ a.s = "" /\ b.s = ""
  THEN Num(a.n - b.n)
  ELSE NaN

\* ToInt32, the conversion `&` applies to its operands.  The numbers of the
\* model lie within the 32-bit range, where it is the identity; undefined and
\* NaN convert to 0.
ToInt32(v) ==
  CASE v.t = "number" /\ v.s = "" -> v.n
    [] v.t = "boolean" -> v.n
    [] OTHER -> 0

\* `a & b` for b >= 0, on two's complement (\div and % round down).
RECURSIVE BitAnd(_, _)
BitAnd(a, b) ==
  IF a = 0 \/ b = 0 THEN 0
  ELSE 2 * BitAnd(a \div 2, b \div 2) + (IF a % 2 = 1 /\ b % 2 = 1 THEN 1 ELSE 0)

RECURSIVE BitOr(_, _)
BitOr(a, b) ==
  IF a = 0 THEN b
  ELSE IF b = 0 THEN a
  ELSE 2 * BitOr(a \div 2, b \div 2) + (IF a % 2 = 1 \/ b % 2 = 1 THEN 1 ELSE 0)

(***************************************************************************)
(* The modifier constants, line 13.                                        *)
(***************************************************************************)
NO_MODIFIER == 0
ALT_KEY == 1
CTRL_KEY == 2
META_KEY == 4
SHIFT_KEY == 8

\* Mutant of HasModifier: `&&` written for `&`.
HasModifier_logicalAnd(modifiers, KEY) == ToBoolean(modifiers) /\ KEY # 0

\* `!!(modifiers & KEY)`
HasModifier(modifiers, KEY) == BitAnd(ToInt32(modifiers), KEY) # 0

(***************************************************************************)
(* KeyboardEvent                                                           *)
(***************************************************************************)
KeyboardEvent(type, keyCode, modifiers, targetValue) ==
  [ cls |-> "KeyboardEvent",
    type |-> type,
    keyCode |-> keyCode,
    inputValue |-> targetValue,
    altKey |-> HasModifier(modifiers, ALT_KEY),
    ctrlKey |-> HasModifier(modifiers, CTRL_KEY),
    metaKey |-> HasModifier(modifiers, META_KEY),
    shiftKey |-> HasModifier(modifiers, SHIFT_KEY) ]

\* Mutant of KeyboardEvent_fromDomEvent_modifiers: a modifier counts as pressed
\* when its field is present, whatever its value.
KeyboardEvent_fromDomEvent_modifiers_present(keys) ==
  Num(BitOr(BitOr(BitOr(
    IF keys.altKey # Undefined THEN ALT_KEY ELSE 0,
    IF keys.ctrlKey # Undefined THEN CTRL_KEY ELSE 0),
    IF keys.metaKey # Undefined THEN META_KEY ELSE 0),
    IF keys.shiftKey # Undefined THEN SHIFT_KEY ELSE 0))

\* The mask fromDomEvent builds from the key record, lines 44-48.
KeyboardEvent_fromDomEvent_modifiers(keys) ==
  Num(BitOr(BitOr(BitOr(
    IF ToBoolean(keys.altKey) THEN ALT_KEY ELSE 0,
    IF ToBoolean(keys.ctrlKey) THEN CTRL_KEY ELSE 0),
    IF ToBoolean(keys.metaKey) THEN META_KEY ELSE 0),
    IF ToBoolean(keys.shiftKey) THEN SHIFT_KEY ELSE 0))

KeyboardEvent_fromDomEvent(type, keys, targetValue) ==
  KeyboardEvent(Undefined, keys.keyCode,
                KeyboardEvent_fromDomEvent_modifiers(keys), targetValue)

\* Mutant of KeyboardEvent_clone_modifiers: the meta flag is left out.
KeyboardEvent_clone_modifiers_noMeta(this) ==
  Num(BitOr(BitOr(
    IF this.altKey THEN ALT_KEY ELSE 0,
    IF this.ctrlKey THEN CTRL_KEY ELSE 0),
    IF this.shiftKey THEN SHIFT_KEY ELSE 0))

\* The mask clone rebuilds from the four flags, lines 58-61.
KeyboardEvent_clone_modifiers(this) ==
  Num(BitOr(BitOr(BitOr(
    IF this.altKey THEN ALT_KEY ELSE 0,
    IF this.ctrlKey THEN CTRL_KEY ELSE 0),
    IF this.metaKey THEN META_KEY ELSE 0),
    IF this.shiftKey THEN SHIFT_KEY ELSE 0))

KeyboardEvent_clone(this, type) ==
  KeyboardEvent(Or(type, this.type), this.keyCode,
                KeyboardEvent_clone_modifiers(this), this.inputValue)

(***************************************************************************)
(* The mouse event type table, lines 4-10.  eventTypeMap is an object      *)
(* literal: a lookup that finds no own property goes on to                 *)
(* Object.prototype, whose members are functions (and, for __proto__, the  *)
(* prototype object itself).                                               *)
(***************************************************************************)
eventTypeMap ==
  [ mouseup |-> "pointerup",
    mousedown |-> "pointerdown",
    mousemove |-> "pointermove",
    mouseover |-> "mouseover",
    mouseout |-> "mouseout" ]

ObjectPrototype ==
  { "constructor", "toString", "toLocaleString", "valueOf", "hasOwnProperty",
    "isPrototypeOf", "propertyIsEnumerable", "__proto__" }

\* The property key a value is converted to by `obj[v]`.
ToPropertyKey(v) ==
  CASE v.t = "string" -> v.s
    [] v.t = "undefined" -> "undefined"
    [] OTHER -> v.t

\* `eventTypeMap[v]`
eventTypeMapGet(v) ==
  LET key == ToPropertyKey(v) IN
  IF key \in DOMAIN eventTypeMap THEN Str(eventTypeMap[key])
  ELSE IF key = "__proto__" THEN Builtin("object", "Object.prototype")
  ELSE IF key \in ObjectPrototype THEN Builtin("function", key)
  ELSE Undefined

(***************************************************************************)
(* PointerEvent                                                            *)
(***************************************************************************)
OptionalFields ==
  { "deltaX", "deltaY", "diffX", "diffY", "isLeft", "isRight", "isMiddle",
    "touchId", "touchIndex" }

PointerEvent(type, stageX, stageY, clientX, clientY) ==
  [ cls |-> "PointerEvent",
    type |-> type,
    stageX |-> stageX, x |-> stageX,
    stageY |-> stageY, y |-> stageY,
    clientX |-> clientX,
    clientY |-> clientY,
    deltaX |-> Undefined, deltaY |-> Undefined,
    diffX |-> Undefined, diffY |-> Undefined,
    isLeft |-> Undefined, isRight |-> Undefined, isMiddle |-> Undefined,
    touchId |-> Undefined, touchIndex |-> Undefined ]

\* Mutant of PointerEvent_fromDomEvent: domType is handed to the constructor.
PointerEvent_fromDomEvent_typed(domType, clientOffsets, stageClientX, stageClientY) ==
  LET clientX == clientOffsets.clientX
      clientY == clientOffsets.clientY
  IN PointerEvent(domType, Minus(clientX, stageClientX),
                  Minus(clientY, stageClientY), clientX, clientY)

\* Mutant of PointerEvent_fromDomEvent: the operands of the subtraction swapped.
PointerEvent_fromDomEvent_swapped(domType, clientOffsets, stageClientX, stageClientY) ==
  LET clientX == clientOffsets.clientX
      clientY == clientOffsets.clientY
  IN PointerEvent(Undefined, Minus(stageClientX, clientX),
                  Minus(stageClientY, clientY), clientX, clientY)

PointerEvent_fromDomEvent(domType, clientOffsets, stageClientX, stageClientY) ==
  LET clientX == clientOffsets.clientX
      clientY == clientOffsets.clientY
  IN PointerEvent(Undefined, Minus(clientX, stageClientX),
                  Minus(clientY, stageClientY), clientX, clientY)

PointerEvent_fromDomMouseEvent(domEvent, stageX, stageY) ==
  LET clientX == domEvent.clientX
      clientY == domEvent.clientY
  IN PointerEvent(eventTypeMapGet(domEvent.type), Minus(clientX, stageX),
                  Minus(clientY, stageY), clientX, clientY)

\* Mutant of indexOf: touches are matched by their identifier, not as objects.
indexOf_byIdentifier(list, searchElement) ==
  LET hits == { i \in 1..Len(list) :
                  list[i].identifier = searchElement.identifier } IN
  IF hits = {} THEN -1
  ELSE (CHOOSE i \in hits : \A j \in hits : i <= j) - 1

\* Array.prototype.indexOf applied to a list of touch objects: the zero-based
\* position of the first element strictly equal to searchElement (for
\* objects: the same object), or -1.
indexOf(list, searchElement) ==
  LET hits == { i \in 1..Len(list) : list[i].ref = searchElement.ref } IN
  IF hits = {} THEN -1
  ELSE (CHOOSE i \in hits : \A j \in hits : i <= j) - 1

PointerEvent_fromDomTouch(domTouch, domEvent, stageX, stageY) ==
  LET clientX == domTouch.clientX
      clientY == domTouch.clientY
      pointerEvent == PointerEvent(Undefined, Minus(clientX, stageX),
                                   Minus(clientY, stageY), clientX, clientY)
  IN [pointerEvent EXCEPT
        !.touchId = domTouch.identifier,
        !.touchIndex = Num(indexOf(domEvent.touches, domTouch))]

\* Mutant of PointerEvent_clone: the type argument is used without the
\* fallback to this.type.
PointerEvent_clone_noFallback(this, type) ==
  LET clone == PointerEvent(type, this.x, this.y, this.clientX, this.clientY)
  IN [clone EXCEPT
        !.deltaX = this.deltaX,
        !.deltaY = this.deltaY,
        !.diffX = this.diffX,
        !.diffY = this.diffY,
        !.isLeft = this.isLeft,
        !.isRight = this.isRight,
        !.isMiddle = this.isMiddle,
        !.touchId = this.touchId,
        !.touchIndex = this.touchIndex]

\* Mutant of PointerEvent_clone: isRight is not copied (isLeft is copied
\* twice in the source; here it takes isRight's place).
PointerEvent_clone_noIsRight(this, type) ==
  LET clone == PointerEvent(Or(type, this.type), this.x, this.y,
                            this.clientX, this.clientY)
  IN [clone EXCEPT
        !.deltaX = this.deltaX,
        !.deltaY = this.deltaY,
        !.diffX = this.diffX,
        !.diffY = this.diffY,
        !.isLeft = this.isLeft,
        !.isMiddle = this.isMiddle,
        !.touchId = this.touchId,
        !.touchIndex = this.touchIndex]

PointerEvent_clone(this, type) ==
  LET clone == PointerEvent(Or(type, this.type), this.x, this.y,
                            this.clientX, this.clientY)
  IN [clone EXCEPT
        !.deltaX = this.deltaX,
        !.deltaY = this.deltaY,
        !.diffX = this.diffX,
        !.diffY = this.diffY,
        !.isLeft = this.isLeft,
        !.isRight = this.isRight,
        !.isMiddle = this.isMiddle,
        !.touchId = this.touchId,
        !.touchIndex = this.touchIndex]

\* What a caller stores in an optional field it populates after construction.
CallerValue(f) ==
  CASE f = "deltaX" -> Num(1)
    [] f = "deltaY" -> Num(2)
    [] f = "diffX" -> Num(3)
    [] f = "diffY" -> Num(4)
    [] f = "isLeft" -> Bool(TRUE)
    [] f = "isRight" -> Bool(FALSE)
    [] f = "isMiddle" -> Bool(TRUE)
    [] f = "touchId" -> Num(5)
    [] f = "touchIndex" -> Num(0)

\* `event.f = value` for every f of fields.
AssignFields(event, fields) ==
  [ f \in DOMAIN event |-> IF f \in fields THEN CallerValue(f) ELSE event[f] ]

(***************************************************************************)
(* The calls.  Each allocates its result on the heap (`new`, lines 49, 63, *)
(* 103, 116, 128, 148), which leaves every other object alone; calls       *)
(* records, for each object, the call that made it: its name, the type     *)
(* argument, the modifiers handed to the KeyboardEvent constructor and,    *)
(* for a clone, the object it was cloned from (0 otherwise).               *)
(***************************************************************************)
Call(op, type, modifiers, src) ==
  [ op |-> op, type |-> type, modifiers |-> modifiers, src |-> src ]

New(object, call) ==
  /\ Len(heap) < MaxObjects
  /\ heap' = Append(heap, object)
  /\ calls' = Append(calls, call)
  /\ last' = [ op |-> call.op, ret |-> Len(heap) + 1 ]
  /\ UNCHANGED input

IsKeyboardEvent(k) == k \in DOMAIN heap /\ heap[k].cls = "KeyboardEvent"
IsPointerEvent(k) == k \in DOMAIN heap /\ heap[k].cls = "PointerEvent"

NewKeyboardEvent ==
  New(KeyboardEvent(input.type, input.keyCode, input.modifiers, input.targetValue),
      Call("KeyboardEvent", input.type, input.modifiers, 0))

KeyboardFromDomEvent ==
  New(KeyboardEvent_fromDomEvent(input.type, input.keys, input.targetValue),
      Call("KeyboardEvent.fromDomEvent", input.type,
           KeyboardEvent_fromDomEvent_modifiers(input.keys), 0))

KeyboardClone ==
  \E k \in DOMAIN heap, type \in {Undefined, input.override} :
    /\ IsKeyboardEvent(k)
    /\ New(KeyboardEvent_clone(heap[k], type),
           Call("KeyboardEvent.clone", type,
                KeyboardEvent_clone_modifiers(heap[k]), k))

NewPointerEvent ==
  New(PointerEvent(input.type, input.stageX, input.stageY,
                   input.clientX, input.clientY),
      Call("PointerEvent", input.type, Undefined, 0))

PointerFromDomEvent ==
  New(PointerEvent_fromDomEvent(input.type,
        [clientX |-> input.clientX, clientY |-> input.clientY],
        input.stageX, input.stageY),
      Call("PointerEvent.fromDomEvent", input.type, Undefined, 0))

PointerFromDomMouseEvent ==
  New(PointerEvent_fromDomMouseEvent(
        [type |-> input.rawType, clientX |-> input.clientX,
         clientY |-> input.clientY],
        input.stageX, input.stageY),
      Call("PointerEvent.fromDomMouseEvent", input.rawType, Undefined, 0))

PointerFromDomTouch ==
  New(PointerEvent_fromDomTouch(input.domTouch, [touches |-> input.touches],
                                input.stageX, input.stageY),
      Call("PointerEvent.fromDomTouch", Undefined, Undefined, 0))

\* Mutant of PointerClone: clone updates `this` and returns it.
PointerCloneInPlace ==
  \E k \in DOMAIN heap, type \in {Undefined, input.override} :
    /\ IsPointerEvent(k)
    /\ heap' = [heap EXCEPT ![k] = PointerEvent_clone(heap[k], type)]
    /\ last' = [ op |-> "PointerEvent.clone", ret |-> k ]
    /\ UNCHANGED <<input, calls>>

PointerClone ==
  \E k \in DOMAIN heap, type \in {Undefined, input.override} :
    /\ IsPointerEvent(k)
    /\ New(PointerEvent_clone(heap[k], type),
           Call("PointerEvent.clone", type, Undefined, k))

\* A caller populates optional fields of an event it holds.
Populate ==
  \E k \in DOMAIN heap :
    /\ IsPointerEvent(k)
    /\ input.fields # {}
    /\ heap' = [heap EXCEPT ![k] = AssignFields(heap[k], input.fields)]
    /\ last' = [ op |-> "populate", ret |-> k ]
    /\ UNCHANGED <<input, calls>>

(***************************************************************************)
(* The inputs.  A touch object is known by its reference: touch objects 1  *)
(* and 2 are distinct objects with equal fields.                           *)
(***************************************************************************)
TouchPoint(ref) ==
  [ ref |-> ref, identifier |-> Num(IF ref = 3 THEN 9 ELSE 7),
    clientX |-> Num(150), clientY |-> Num(80) ]

TouchPoints == { TouchPoint(ref) : ref \in 1..3 }
TouchLists == UNION { [1..n -> TouchPoints] : n \in 0..MaxTouches }
Coords == { Num(c) : c \in 0..MaxCoord }
Modifiers == { Undefined } \cup { Num(m) : m \in 0..MaxModifier }
Overrides == { Str("dragend"), Str("") }
Types == { Undefined, Str("keydown") }
RawTypes ==
  { Str(key) : key \in DOMAIN eventTypeMap } \cup
  { Undefined, Str(""), Str("click"), Str("touchstart"), Str("pointerup"),
    Str("constructor"), Str("toString"), Str("__proto__") }
KeyRecords ==
  [ altKey : { Undefined, Bool(TRUE), Bool(FALSE) },
    ctrlKey : { Undefined, Num(1), Num(0) },
    metaKey : { Undefined, Str("meta"), Str("") },
    shiftKey : { Undefined, Bool(TRUE), Num(0) },
    keyCode : { Num(65) } ]

BaseInput ==
  [ type |-> Str("keydown"),
    keyCode |-> Num(13),
    modifiers |-> Num(9),
    targetValue |-> Str("hello"),
    keys |-> [ altKey |-> Bool(TRUE), ctrlKey |-> Undefined, metaKey |-> Num(0),
               shiftKey |-> Str("shift"), keyCode |-> Num(65) ],
    clientX |-> Num(150),
    clientY |-> Num(80),
    stageX |-> Num(50),
    stageY |-> Num(20),
    rawType |-> Str("mouseup"),
    domTouch |-> TouchPoint(3),
    touches |-> << TouchPoint(1), TouchPoint(2), TouchPoint(3) >>,
    override |-> Str("dragend"),
    fields |-> { "deltaX", "isLeft" } ]

InputsKeyboard ==
  { [BaseInput EXCEPT !.type = t, !.modifiers = m, !.override = o] :
      t \in Types, m \in Modifiers, o \in Overrides } \cup
  { [BaseInput EXCEPT !.keys = keys] : keys \in KeyRecords }

InputsPointer ==
  { [BaseInput EXCEPT !.type = t, !.clientX = cx, !.clientY = cy,
                      !.stageX = ox, !.stageY = oy] :
      t \in Types, cx \in Coords, cy \in Coords, ox \in Coords, oy \in Coords } \cup
  { [BaseInput EXCEPT !.rawType = raw] : raw \in RawTypes } \cup
  { [BaseInput EXCEPT !.domTouch = touch, !.touches = list] :
      touch \in TouchPoints, list \in TouchLists }

InputsPopulate ==
  { [BaseInput EXCEPT !.fields = fields, !.override = o] :
      fields \in SUBSET OptionalFields, o \in Overrides }

InputsAll ==
  { [BaseInput EXCEPT !.type = t, !.override = o] : t \in Types, o \in Overrides }

InitWith(inputs) ==
  /\ input \in inputs
  /\ heap = << >>
  /\ calls = << >>
  /\ last = [ op |-> "none", ret |-> 0 ]

(***************************************************************************)
(* Specifications.                                                         *)
(***************************************************************************)
Init == InitWith(InputsAll)

Next ==
  \/ NewKeyboardEvent
  \/ KeyboardFromDomEvent
  \/ KeyboardClone
  \/ NewPointerEvent
  \/ PointerFromDomEvent
  \/ PointerFromDomMouseEvent
  \/ PointerFromDomTouch
  \/ PointerClone
  \/ Populate

Spec == Init /\ [][Next]_vars

InitKeyboard == InitWith(InputsKeyboard)

NextKeyboard ==
  \/ NewKeyboardEvent
  \/ KeyboardFromDomEvent
  \/ KeyboardClone

SpecKeyboard == InitKeyboard /\ [][NextKeyboard]_vars

InitPointer == InitWith(InputsPointer)

NextPointer ==
  \/ NewPointerEvent
  \/ PointerFromDomEvent
  \/ PointerFromDomMouseEvent
  \/ PointerFromDomTouch

SpecPointer == InitPointer /\ [][NextPointer]_vars

InitPopulate == InitWith(InputsPopulate)

NextPopulate ==
  \/ NewPointerEvent
  \/ Populate
  \/ PointerClone

SpecPopulate == InitPopulate /\ [][NextPopulate]_vars

(***************************************************************************)
(* The claims.  Ret is the object the last call returned, Made the call,   *)
(* Src the object a clone was made from.                                   *)
(***************************************************************************)
Ret == heap[last.ret]
Made == calls[last.ret]
Src == heap[Made.src]

Just(op) == last.op = op

\* C1, as claimed: fromDomEvent passes its type argument through, so the
\* returned event's type equals the argument.
C1_TypePassedThrough ==
  Just("PointerEvent.fromDomEvent") => Ret.type = Made.type

\* C1, amended: fromDomEvent ignores its type argument; the returned event's
\* type is unset whatever the argument, offsets and stage origin are.
C1_TypeUnset ==
  Just("PointerEvent.fromDomEvent") => Ret.type = Undefined

C1_Witness ==
  /\ Just("PointerEvent.fromDomEvent")
  /\ Made.type = Str("keydown")
  /\ Ret.type = Undefined

IsClone == Just("KeyboardEvent.clone") \/ Just("PointerEvent.clone")

\* C2, as claimed: a clone's type is the override whenever one is given, the
\* empty string included, and the source's type only when none is given.
C2_OverrideWheneverGiven ==
  IsClone =>
    Ret.type = (IF Made.type # Undefined THEN Made.type ELSE Src.type)

\* C2, amended: a clone's type is the override whenever a non-empty override
\* string is given, and the source's type when no override is given or the
\* override is the empty string.
C2_OverrideWhenNonEmpty ==
  IsClone =>
    Ret.type = (IF Made.type.t = "string" /\ Made.type.s # ""
                THEN Made.type ELSE Src.type)

C2_Witness ==
  /\ Just("KeyboardEvent.clone")
  /\ Made.type = Str("")
  /\ Src.type = Str("keydown")
  /\ Ret.type = Str("keydown")

\* C3: fromDomMouseEvent sets the type to the table entry of the DOM event's
\* raw type, and leaves it unset for every raw type that is not one of the
\* five keys of the table.
C3_MappedOrUnset ==
  Just("PointerEvent.fromDomMouseEvent") =>
    /\ Made.type = Str("mouseup") => Ret.type = Str("pointerup")
    /\ Made.type = Str("mousedown") => Ret.type = Str("pointerdown")
    /\ Made.type = Str("mousemove") => Ret.type = Str("pointermove")
    /\ Made.type = Str("mouseover") => Ret.type = Str("mouseover")
    /\ Made.type = Str("mouseout") => Ret.type = Str("mouseout")
    /\ Made.type \notin { Str("mouseup"), Str("mousedown"), Str("mousemove"),
                          Str("mouseover"), Str("mouseout") }
         => Ret.type = Undefined

\* C4: PointerEvent.clone carries every field but type forward unchanged,
\* unset values staying unset, whatever the override.
C4_FieldsCarried ==
  Just("PointerEvent.clone") =>
    \A f \in { "stageX", "stageY", "x", "y", "clientX", "clientY", "deltaX",
               "deltaY", "diffX", "diffY", "isLeft", "isRight", "isMiddle",
               "touchId", "touchIndex" } : Ret[f] = Src[f]

C4_Witness ==
  /\ Just("PointerEvent.clone")
  /\ Made.type = Str("dragend")
  /\ Src.type # Str("dragend")
  /\ Src.deltaX = Num(1)
  /\ Src.isRight = Bool(FALSE)
  /\ Src.isLeft = Undefined
  /\ Src.touchId = Undefined
  /\ Src.touchIndex = Num(0)

\* C5: fromDomEvent returns clientX = cx, clientY = cy, stageX = cx - ox,
\* stageY = cy - oy, x = stageX and y = stageY.
C5_StageCoordinates ==
  Just("PointerEvent.fromDomEvent") =>
    /\ Ret.clientX = input.clientX
    /\ Ret.clientY = input.clientY
    /\ Ret.stageX = Num(input.clientX.n - input.stageX.n)
    /\ Ret.stageY = Num(input.clientY.n - input.stageY.n)
    /\ Ret.x = Ret.stageX
    /\ Ret.y = Ret.stageY

C5_Witness ==
  /\ Just("PointerEvent.fromDomEvent")
  /\ input.clientX = Num(150) /\ input.clientY = Num(80)
  /\ input.stageX = Num(50) /\ input.stageY = Num(20)
  /\ Ret.stageX = Num(100) /\ Ret.stageY = Num(60)
  /\ Ret.x = Num(100) /\ Ret.y = Num(60)

\* The bitmask the four flags of a keyboard event recombine to.
Recombined(event) ==
  (IF event.altKey THEN 1 ELSE 0) + (IF event.ctrlKey THEN 2 ELSE 0) +
  (IF event.metaKey THEN 4 ELSE 0) + (IF event.shiftKey THEN 8 ELSE 0)

\* The directly constructed object a chain of clones starts from.
RECURSIVE Root(_)
Root(k) == IF calls[k].src = 0 THEN k ELSE Root(calls[k].src)

C7_TouchIndex ==
  Just("PointerEvent.fromDomTouch") =>
    /\ Ret.type = Undefined
    /\ Ret.touchId = input.domTouch.identifier
    /\ \A i \in 1..Len(input.touches) :
         ( /\ input.touches[i].ref = input.domTouch.ref
           /\ \A j \in 1..(i - 1) : input.touches[j].ref # input.domTouch.ref )
         => Ret.touchIndex = Num(i - 1)
    /\ (\A i \in 1..Len(input.touches) :
          input.touches[i].ref # input.domTouch.ref)
         => Ret.touchIndex = Num(-1)

C7_Witness ==
  /\ Just("PointerEvent.fromDomTouch")
  /\ Len(input.touches) = 3
  /\ input.domTouch.ref = 2
  /\ input.touches[1].ref = 1
  /\ input.touches[2].ref = 3
  /\ input.touches[3].ref = 2
  /\ Ret.touchIndex = Num(2)
  /\ Ret.touchId = Num(7)

Falsy == { Undefined, Bool(FALSE), Num(0), Str("") }

\* C8: KeyboardEvent.fromDomEvent returns an event whose type is unset
\* whatever the type argument, whose keyCode is the key record's, and whose
\* flags are true exactly when the key record's field is truthy.
C8_FromKeyRecord ==
  Just("KeyboardEvent.fromDomEvent") =>
    /\ Ret.type = Undefined
    /\ Ret.keyCode = input.keys.keyCode
    /\ Ret.altKey = (input.keys.altKey \notin Falsy)
    /\ Ret.ctrlKey = (input.keys.ctrlKey \notin Falsy)
    /\ Ret.metaKey = (input.keys.metaKey \notin Falsy)
    /\ Ret.shiftKey = (input.keys.shiftKey \notin Falsy)

C8_Witness ==
  /\ Just("KeyboardEvent.fromDomEvent")
  /\ Made.type = Str("keydown")
  /\ input.keys.altKey = Undefined
  /\ input.keys.ctrlKey = Num(1)
  /\ input.keys.metaKey = Str("")
  /\ input.keys.shiftKey = Bool(TRUE)
  /\ ~Ret.altKey /\ Ret.ctrlKey /\ ~Ret.metaKey /\ Ret.shiftKey

\* Bit i of a supplied modifiers argument; an omitted argument has none set.
Bit(modifiers, i) ==
  modifiers.t = "number" /\ (modifiers.n \div (2 ^ i)) % 2 = 1

\* C9: in every KeyboardEvent, however produced, the four flags are the low
\* four bits of the mask its constructor was given: higher bits change
\* nothing, and an omitted mask gives four false flags.
C9_FlagsDecomposeMask ==
  \A k \in DOMAIN heap :
    heap[k].cls = "KeyboardEvent" =>
      /\ heap[k].altKey = Bit(calls[k].modifiers, 0)
      /\ heap[k].ctrlKey = Bit(calls[k].modifiers, 1)
      /\ heap[k].metaKey = Bit(calls[k].modifiers, 2)
      /\ heap[k].shiftKey = Bit(calls[k].modifiers, 3)

C9_Witness ==
  /\ Len(heap) = 2
  /\ calls[1].op = "KeyboardEvent"
  /\ calls[1].modifiers = Num(26)
  /\ ~heap[1].altKey /\ heap[1].ctrlKey /\ ~heap[1].metaKey /\ heap[1].shiftKey
  /\ calls[2].op = "KeyboardEvent.clone"
  /\ calls[2].modifiers = Num(10)

StageAlias ==
  \A k \in DOMAIN heap :
    heap[k].cls = "PointerEvent" =>
      heap[k].stageX = heap[k].x /\ heap[k].stageY = heap[k].y

CloneIsFresh ==
  last'.op = "PointerEvent.clone" =>
    /\ last'.ret \notin DOMAIN heap
    /\ last'.ret \in DOMAIN heap'
    /\ \A k \in DOMAIN heap : heap'[k] = heap[k]

\* C10: after any sequence of constructions, conversions, caller assignments
\* and clones every PointerEvent has stageX = x and stageY = y, and a clone
\* is a new object whose making leaves every existing object unchanged.
C10_AliasAndFreshClone == []StageAlias /\ [][CloneIsFresh]_vars

C10_Witness ==
  /\ Just("PointerEvent.clone")
  /\ calls[Made.src].op = "PointerEvent.fromDomTouch"
  /\ Src.deltaX = Num(1)
  /\ Ret.deltaX = Num(1)
  /\ Ret.x = Num(100) /\ Ret.stageX = Num(100)

====
